---- MODULE Spec2Model ----
(***************************************************************************)
(* Model of smtp-split-mailer (src/app/main.py): the in-memory job         *)
(* registry, the background pipeline _run_job (SMTP pre-flight, archive,   *)
(* send with throttling), Job.log and the polling endpoint api_logs.       *)
(*                                                                         *)
(* External collaborators (the SMTP server, the 7z child process, the      *)
(* file system, the wall clock) are the environment: every call into them  *)
(* returns one of the outcomes the call can have, chosen                   *)
(* nondeterministically.                                                   *)
(***************************************************************************)
EXTENDS Integers, Sequences, FiniteSets, TLC

\* ------------------------------------------------------------------ bounds
\* start requests (one Job object each)
MaxJobs == 2
\* wall-clock milliseconds that pass while the model runs
MaxClock == 1
\* volumes the archiver writes in one run
MaxVolumes == 2
\* volumes a previous run left in the session's output directory
MaxStale == 2
\* lines the archiver prints
MaxLines == 1
\* addresses extracted from one recipient text
MaxAddrs == 3
\* volumes of the long-running job, and the volume it is about to send
LongRun == 998
LongStart == 996

\* ----------------------------------------------------- program constants
\* Job.log: "if len(self.logs) > 2000"
LOG_LIMIT == 2000
\* Job.log: "self.logs = self.logs[-1000:]"
LOG_KEEP == 1000
\* api_logs: "job.logs[-1000:]"
LOGS_TAIL == 1000

JobStatus == [PENDING |-> "PENDING", RUNNING |-> "RUNNING",
              DONE |-> "DONE", ERROR |-> "ERROR"]

\* ------------------------------------------------------- Recipient parser
\* An address is the sequence of its characters.
Letters == {"a","b","c","d","e","f","g","h","i","j","k","l","m",
            "n","o","p","q","r","s","t","u","v","w","x","y","z",
            "A","B","C","D","E","F","G","H","I","J","K","L","M",
            "N","O","P","Q","R","S","T","U","V","W","X","Y","Z"}
Digits == {"0","1","2","3","4","5","6","7","8","9"}
LocalChars == Letters \cup Digits \cup {".", "_", "%", "+", "-"}
DomainChars == Letters \cup Digits \cup {".", "-"}

\* _EMAIL_RE.match(addr):
\*   ^[A-Za-z0-9._%+\-]+@[A-Za-z0-9.\-]+\.[A-Za-z]{2,}$
EmailReMatch(addr) ==
    \E i \in 1..Len(addr) :
        /\ addr[i] = "@"
        /\ i > 1
        /\ \A k \in 1..(i-1) : addr[k] \in LocalChars
        /\ \E j \in (i+2)..Len(addr) :
              /\ addr[j] = "."
              /\ \A k \in (i+1)..(j-1) : addr[k] \in DomainChars
              /\ Len(addr) - j >= 2
              /\ \A k \in (j+1)..Len(addr) : addr[k] \in Letters

\* str.lower() on one character (the letters the model's addresses use)
LowerChar(c) ==
    CASE c = "A" -> "a"
      [] c = "B" -> "b"
      [] c = "C" -> "c"
      [] c = "X" -> "x"
      [] c = "O" -> "o"
      [] OTHER -> c

Lower(addr) == [k \in 1..Len(addr) |-> LowerChar(addr[k])]

\* str.strip(): leading and trailing blanks removed
RECURSIVE StripLeft(_)
StripLeft(s) ==
    IF s # <<>> /\ Head(s) = " " THEN StripLeft(Tail(s)) ELSE s

RECURSIVE StripRight(_)
StripRight(s) ==
    IF s # <<>> /\ s[Len(s)] = " "
    THEN StripRight(SubSeq(s, 1, Len(s) - 1))
    ELSE s

Strip(s) == StripRight(StripLeft(s))

\* the loop over pairs of parse_recipients: the addresses that match
\* (emails) and those that do not (bad), each in input order; empty
\* addresses are skipped
RECURSIVE Classify(_, _, _)
Classify(pairs, emails, bad) ==
    IF pairs = <<>> THEN [emails |-> emails, bad |-> bad]
    ELSE LET addr == Strip(Head(pairs)) IN
         IF addr = <<>> THEN Classify(Tail(pairs), emails, bad)
         ELSE IF EmailReMatch(addr)
              THEN Classify(Tail(pairs), Append(emails, addr), bad)
              ELSE Classify(Tail(pairs), emails, Append(bad, addr))

\* the dedup loop of parse_recipients: first occurrence of each lower-cased
\* address, original casing kept
RECURSIVE Uniq(_, _, _)
Uniq(emails, seen, uniq) ==
    IF emails = <<>> THEN uniq
    ELSE LET e == Head(emails)
             el == Lower(e) IN
         IF el \notin seen
         THEN Uniq(Tail(emails), seen \cup {el}, Append(uniq, e))
         ELSE Uniq(Tail(emails), seen, uniq)

\* parse_recipients that returns the matching addresses of a text with a
\* bad address instead of raising
ParseRecipientsPartial(s) ==
    IF s = <<>> THEN [raised |-> FALSE, list |-> <<>>, bad |-> <<>>]
    ELSE LET c == Classify(s, <<>>, <<>>) IN
         [raised |-> FALSE, list |-> Uniq(c.emails, {}, <<>>), bad |-> c.bad]

\* parse_recipients(s).  The text s is given by the sequence of addresses
\* that getaddresses extracts from its normalised form (the empty sequence
\* for a text that normalises to "").  raised = TRUE stands for the
\* RuntimeError, whose message joins the addresses of bad.
parse_recipients(s) ==
    IF s = <<>> THEN [raised |-> FALSE, list |-> <<>>, bad |-> <<>>]
    ELSE LET c == Classify(s, <<>>, <<>>) IN
         IF c.bad # <<>>
         THEN [raised |-> TRUE, list |-> <<>>, bad |-> c.bad]
         ELSE [raised |-> FALSE, list |-> Uniq(c.emails, {}, <<>>),
               bad |-> <<>>]

\* addresses the start requests of the model use
AddrA == <<"a", "@", "x", ".", "c", "o">>
AddrAUpper == <<"A", "@", "X", ".", "c", "o">>
AddrB == <<"b", "@", "x", ".", "c", "o">>
AddrNoTld == <<"a", "@", "x">>
AddrBlank == <<" ">>
AddrNoAt == <<"b">>

\* the texts handed to parse_recipients on its own
AddrPool == {AddrA, AddrAUpper, AddrB, AddrNoTld, AddrBlank, AddrNoAt}
Texts == UNION {[1..n -> AddrPool] : n \in 0..MaxAddrs}

\* ---------------------------------------------------------- start requests
Reqs == 1..MaxJobs

\* StartPayload, the fields the pipeline's control flow reads.  A request
\* differs from the default one in one field, or has no To address and
\* another Cc.
DefaultPayload ==
    [smtp_host |-> "smtp", recipients |-> <<AddrA>>, cc |-> <<AddrB>>,
     send_interval_sec |-> 1]
Payloads ==
    {DefaultPayload}
    \cup {[DefaultPayload EXCEPT !.smtp_host = ""]}
    \cup {[DefaultPayload EXCEPT !.recipients = t] :
            t \in {<<>>, <<AddrBlank>>, <<AddrNoTld>>}}
    \cup {[DefaultPayload EXCEPT !.cc = t] : t \in {<<>>, <<AddrNoTld>>}}
    \cup {[DefaultPayload EXCEPT !.recipients = <<>>, !.cc = t] :
            t \in {<<>>, <<AddrNoTld>>}}
    \cup {[DefaultPayload EXCEPT !.send_interval_sec = d] : d \in {0, -1}}
NoPayload ==
    [smtp_host |-> "", recipients |-> <<>>, cc |-> <<>>,
     send_interval_sec |-> 0]

\* cfg("SMTP_HOST", ""): the process configuration names no host
CfgSmtpHost == ""

\* host = (payload.smtp_host or cfg("SMTP_HOST", "")).strip()
EffectiveHost(p) == IF p.smtp_host # "" THEN p.smtp_host ELSE CfgSmtpHost

\* interval = max(0, int(payload.send_interval_sec))
Interval(p) == IF p.send_interval_sec > 0 THEN p.send_interval_sec ELSE 0

\* ------------------------------------------------------------ volume files
\* A volume file {base}.7z.NNN is named by the digits of NNN.
VolName(k) == <<(k \div 100) % 10, (k \div 10) % 10, k % 10>>
Vols(n) == {VolName(k) : k \in 1..n}

\* string comparison of two names
RECURSIVE NameLess(_, _)
NameLess(a, b) ==
    IF a = <<>> THEN b # <<>>
    ELSE IF b = <<>> THEN FALSE
    ELSE IF Head(a) # Head(b) THEN Head(a) < Head(b)
    ELSE NameLess(Tail(a), Tail(b))

\* sorted(out_dir.glob(f"{base}.7z.*"))
RECURSIVE Sorted(_)
Sorted(S) ==
    IF S = {} THEN <<>>
    ELSE LET m == CHOOSE x \in S : \A y \in S \ {x} : NameLess(x, y)
         IN <<m>> \o Sorted(S \ {m})

\* ------------------------------------------------------------------- state
VARIABLES
    now,          \* int(time.time() * 1000)
    JOBS,         \* the registry: job id -> Job (0: no entry)
    apc,          \* api_start handler of each request
    payload,      \* the request's StartPayload
    startResp,    \* what api_start returned
    job_id,       \* Job.job_id
    status,       \* Job.status
    logs,         \* Job.logs
    lock,         \* Job.lock: its holder, or "free"
    rpc,          \* position of the job's _run_job thread
    loc,          \* locals of _run_job
    fx,           \* what the job's thread did to the outside world
    sent,         \* messages the SMTP server accepted from the job
    oplog,        \* logger output of the job's thread
    outDir,       \* OUTPUTS_DIR / session_id exists
    files,        \* volume files {base}.7z.* in the output directory
    archiveFile,  \* the unsplit {base}.7z exists
    SEVENZ_PATH,  \* the cached archiver path ("" for None)
    sevenzExists, \* SEVENZ_DIR / "7zz" exists
    ppc,          \* api_logs handler
    pid,          \* its job_id argument
    pjob,         \* the Job it found (0: None)
    pstatus,      \* job.status as it read it
    presp,        \* its response
    ptext,        \* the argument of a parse_recipients call
    parsed        \* what the call returned or raised

vars == <<now, JOBS, apc, payload, startResp, job_id, status, logs, lock,
          rpc, loc, fx, sent, oplog, outDir, files, archiveFile,
          SEVENZ_PATH, sevenzExists, ppc, pid, pjob, pstatus, presp,
          ptext, parsed>>

regVars == <<now, JOBS, apc, payload, startResp, job_id>>
fsVars == <<outDir, files, archiveFile>>
sevenzVars == <<SEVENZ_PATH, sevenzExists>>
pollVars == <<ppc, pid, pjob, pstatus, presp>>
parseVars == <<ptext, parsed>>

\* ----------------------------------------------------------------- Job.log
\* a log line: its text and, where the text has them, its parameters.  The
\* error line "出错：{e}" carries the exception's message in err.
Line(text) == [text |-> text, err |-> "", idx |-> 0, total |-> 0]
LineOf(text, idx, total) ==
    [text |-> text, err |-> "", idx |-> idx, total |-> total]
\* ErrorLine without the exception's message: job.log("出错")
ErrorLineBare(e) == [text |-> "error", err |-> "", idx |-> 0, total |-> 0]
ErrorLine(e) == [text |-> "error", err |-> e, idx |-> 0, total |-> 0]

\* l[-n:]
LastN(l, n) == IF Len(l) <= n THEN l ELSE SubSeq(l, Len(l) - n + 1, Len(l))

\* self.logs.append(...)
LogAppend(l, line) == Append(l, line)

\* LogTrim with the slice taken at the limit: self.logs = self.logs[-2000:]
LogTrimAtLimit(l) == IF Len(l) > LOG_LIMIT THEN LastN(l, LOG_LIMIT) ELSE l

\* if len(self.logs) > 2000: self.logs = self.logs[-1000:]
LogTrim(l) == IF Len(l) > LOG_LIMIT THEN LastN(l, LOG_KEEP) ELSE l

\* a record of the process-wide logger
OpRec(level, line) == [level |-> level, line |-> line]

\* ------------------------------------------------------------------- Init
NoJobId == -1
NoLine == Line("")
NoLocals ==
    [parts |-> <<>>, idx |-> 0, err |-> "", lines |-> 0,
     line |-> NoLine, level |-> "", ret |-> ""]
NoEffects ==
    [smtp |-> <<>>, mkdir |-> FALSE, deleted |-> {}, popen |-> 0,
     wrote |-> {}, unpacked |-> 0, slept |-> <<>>]
NoResponse == [code |-> 0, status |-> "NONE", logs |-> <<>>]

InitJobs ==
    /\ now = 0
    /\ JOBS = [i \in 0..MaxClock |-> 0]
    /\ apc = [r \in Reqs |-> "idle"]
    /\ payload = [r \in Reqs |-> NoPayload]
    /\ startResp = [r \in Reqs |-> [job_id |-> NoJobId, status |-> "NONE"]]
    /\ job_id = [r \in Reqs |-> NoJobId]
    /\ status = [r \in Reqs |-> "NONE"]
    /\ logs = [r \in Reqs |-> <<>>]
    /\ lock = [r \in Reqs |-> "free"]
    /\ rpc = [r \in Reqs |-> "none"]
    /\ loc = [r \in Reqs |-> NoLocals]
    /\ fx = [r \in Reqs |-> NoEffects]
    /\ sent = [r \in Reqs |-> <<>>]
    /\ oplog = [r \in Reqs |-> <<>>]

\* no parse_recipients call is being looked at
NotParsed ==
    [called |-> FALSE, raised |-> FALSE, list |-> <<>>, bad |-> <<>>]
InitParse ==
    /\ ptext = <<>>
    /\ parsed = NotParsed

InitPoll ==
    /\ ppc = "idle"
    /\ pid = NoJobId
    /\ pjob = 0
    /\ pstatus = "NONE"
    /\ presp = NoResponse

\* _prepare_sevenz_on_startup has run: it cached the archiver path, or it
\* failed and left SEVENZ_PATH None.
InitSevenz ==
    /\ SEVENZ_PATH \in {"", "7zz"}
    /\ sevenzExists = (SEVENZ_PATH # "")

\* The output directory of the session outlives the process: it may hold
\* the volumes of an earlier run.
Init ==
    /\ InitJobs
    /\ InitPoll
    /\ InitSevenz
    /\ InitParse
    /\ \E n \in 0..MaxStale, a \in BOOLEAN :
          /\ files = Vols(n)
          /\ archiveFile = a
          /\ outDir = (n > 0 \/ a)

\* ------------------------------------------------------------- api_start
\* create_job: job_id = str(int(time.time() * 1000)); JOBS[job_id] = j
create_job(r) ==
    /\ job_id' = [job_id EXCEPT ![r] = now]
    /\ status' = [status EXCEPT ![r] = JobStatus.PENDING]
    /\ JOBS' = [JOBS EXCEPT ![now] = r]

\* get_job(job_id): the Job, 0 for None
get_job(id) == IF id \in DOMAIN JOBS THEN JOBS[id] ELSE 0

\* api_start up to t.start(): the job is created and its thread started.
\* Requests are numbered in the order they arrive.
ApiStart(r) ==
    /\ apc[r] = "idle"
    /\ \A q \in Reqs : q < r => apc[q] # "idle"
    /\ \E p \in Payloads : payload' = [payload EXCEPT ![r] = p]
    /\ create_job(r)
    /\ rpc' = [rpc EXCEPT ![r] = "start"]
    /\ apc' = [apc EXCEPT ![r] = "started"]
    /\ UNCHANGED <<now, startResp, logs, lock, loc, fx, sent, oplog>>
    /\ UNCHANGED <<fsVars, sevenzVars, pollVars, parseVars>>

\* return {"job_id": job.job_id, "status": job.status}
ApiStartReturn(r) ==
    /\ apc[r] = "started"
    /\ startResp' = [startResp EXCEPT
                       ![r] = [job_id |-> job_id[r], status |-> status[r]]]
    /\ apc' = [apc EXCEPT ![r] = "returned"]
    /\ UNCHANGED <<now, JOBS, payload, job_id, status, logs, lock, rpc, loc,
                   fx, sent, oplog>>
    /\ UNCHANGED <<fsVars, sevenzVars, pollVars, parseVars>>

\* a millisecond passes
Tick ==
    /\ now < MaxClock
    /\ now' = now + 1
    /\ UNCHANGED <<JOBS, apc, payload, startResp, job_id, status, logs, lock,
                   rpc, loc, fx, sent, oplog>>
    /\ UNCHANGED <<fsVars, sevenzVars, pollVars, parseVars>>

\* --------------------------------------------------------------- _run_job
Goto(r, pc) == rpc' = [rpc EXCEPT ![r] = pc]

\* an exception with message e leaves the try block
Raise(r, e) ==
    /\ rpc' = [rpc EXCEPT ![r] = "except"]
    /\ loc' = [loc EXCEPT ![r].err = e]

\* the thread enters job.log(line, level) and goes on at ret afterwards
Call(l, line, level, ret) ==
    [l EXCEPT !.line = line, !.level = level, !.ret = ret]

JobLog(r, line, level, ret) ==
    /\ rpc' = [rpc EXCEPT ![r] = "log"]
    /\ loc' = [loc EXCEPT ![r] = Call(@, line, level, ret)]

\* Job.log: with self.lock: self.logs.append(f"[{stamp}] {msg}")
LogLockAppend(r) ==
    /\ rpc[r] = "log"
    /\ lock[r] = "free"
    /\ lock' = [lock EXCEPT ![r] = "log"]
    /\ logs' = [logs EXCEPT ![r] = LogAppend(@, loc[r].line)]
    /\ Goto(r, "log_trim")
    /\ UNCHANGED <<regVars, status, loc, fx, sent, oplog>>
    /\ UNCHANGED <<fsVars, sevenzVars, pollVars, parseVars>>

\* LogTrimUnlock that leaves the with block without releasing the lock
LogTrimKeepLock(r) ==
    /\ rpc[r] = "log_trim"
    /\ logs' = [logs EXCEPT ![r] = LogTrim(@)]
    /\ oplog' = [oplog EXCEPT
                   ![r] = Append(@, OpRec(loc[r].level, loc[r].line))]
    /\ Goto(r, loc[r].ret)
    /\ UNCHANGED <<regVars, status, lock, loc, fx, sent>>
    /\ UNCHANGED <<fsVars, sevenzVars, pollVars, parseVars>>

\* Job.log: the trim, the end of the with block, logger.error / logger.info
LogTrimUnlock(r) ==
    /\ rpc[r] = "log_trim"
    /\ logs' = [logs EXCEPT ![r] = LogTrim(@)]
    /\ lock' = [lock EXCEPT ![r] = "free"]
    /\ oplog' = [oplog EXCEPT
                   ![r] = Append(@, OpRec(loc[r].level, loc[r].line))]
    /\ Goto(r, loc[r].ret)
    /\ UNCHANGED <<regVars, status, loc, fx, sent>>
    /\ UNCHANGED <<fsVars, sevenzVars, pollVars, parseVars>>

\* an SMTP call of the job's thread, and whether it returned
Smtp(r, op, ok) ==
    fx' = [fx EXCEPT ![r].smtp = Append(@, [op |-> op, ok |-> ok])]

\* job.status = JobStatus.RUNNING
RunStart(r) ==
    /\ rpc[r] = "start"
    /\ status' = [status EXCEPT ![r] = JobStatus.RUNNING]
    /\ Goto(r, "host")
    /\ UNCHANGED <<regVars, logs, lock, loc, fx, sent, oplog>>
    /\ UNCHANGED <<fsVars, sevenzVars, pollVars, parseVars>>

\* if not host: raise ...; job.log("进行 SMTP 预检...")
RunHost(r) ==
    /\ rpc[r] = "host"
    /\ \/ /\ EffectiveHost(payload[r]) = ""
          /\ Raise(r, "no SMTP_HOST")
       \/ /\ EffectiveHost(payload[r]) # ""
          /\ JobLog(r, Line("preflight"), "info", "pre_connect")
    /\ UNCHANGED <<regVars, status, logs, lock, fx, sent, oplog>>
    /\ UNCHANGED <<fsVars, sevenzVars, pollVars, parseVars>>

\* test_srv = connect_smtp(...)
RunPreConnect(r) ==
    /\ rpc[r] = "pre_connect"
    /\ \/ /\ Smtp(r, "pre_connect", TRUE)
          /\ Goto(r, "pre_noop")
          /\ UNCHANGED loc
       \/ /\ Smtp(r, "pre_connect", FALSE)
          /\ Raise(r, "preflight failed")
    /\ UNCHANGED <<regVars, status, logs, lock, sent, oplog>>
    /\ UNCHANGED <<fsVars, sevenzVars, pollVars, parseVars>>

\* RunPreNoop with the probe's failure swallowed (except: pass)
RunPreNoopLenient(r) ==
    /\ rpc[r] = "pre_noop"
    /\ \E ok \in BOOLEAN : Smtp(r, "pre_noop", ok)
    /\ Goto(r, "pre_quit")
    /\ UNCHANGED <<regVars, status, logs, lock, loc, sent, oplog>>
    /\ UNCHANGED <<fsVars, sevenzVars, pollVars, parseVars>>

\* test_srv.noop()
RunPreNoop(r) ==
    /\ rpc[r] = "pre_noop"
    /\ \/ /\ Smtp(r, "pre_noop", TRUE)
          /\ Goto(r, "pre_quit")
          /\ UNCHANGED loc
       \/ /\ Smtp(r, "pre_noop", FALSE)
          /\ Raise(r, "preflight failed")
    /\ UNCHANGED <<regVars, status, logs, lock, sent, oplog>>
    /\ UNCHANGED <<fsVars, sevenzVars, pollVars, parseVars>>

\* test_srv.quit(); job.log("SMTP 预检通过")
RunPreQuit(r) ==
    /\ rpc[r] = "pre_quit"
    /\ \/ /\ Smtp(r, "pre_quit", TRUE)
          /\ JobLog(r, Line("preflight passed"), "info", "dir")
       \/ /\ Smtp(r, "pre_quit", FALSE)
          /\ Raise(r, "preflight failed")
    /\ UNCHANGED <<regVars, status, logs, lock, sent, oplog>>
    /\ UNCHANGED <<fsVars, sevenzVars, pollVars, parseVars>>

\* if not session_dir.exists(): raise ...; out_dir.mkdir(...);
\* job.log("准备压缩工具...").  Whether the session was uploaded is the
\* file system's answer.
RunDir(r) ==
    /\ rpc[r] = "dir"
    /\ \/ /\ Raise(r, "no upload directory")
          /\ UNCHANGED <<fx, outDir>>
       \/ /\ outDir' = TRUE
          /\ fx' = [fx EXCEPT ![r].mkdir = TRUE]
          /\ JobLog(r, Line("prepare archiver"), "info", "sevenz")
    /\ UNCHANGED <<regVars, status, logs, lock, sent, oplog>>
    /\ UNCHANGED <<files, archiveFile, sevenzVars, pollVars, parseVars>>

\* sevenz = SEVENZ_PATH or ensure_7z_ready().  ensure_7z_ready returns at
\* once when SEVENZ_DIR/7zz exists, raises when ./bin holds no bundle,
\* and unpacks the bundle otherwise.
RunSevenz(r) ==
    /\ rpc[r] = "sevenz"
    /\ \/ /\ SEVENZ_PATH # ""
          /\ Goto(r, "cleanup")
          /\ UNCHANGED loc
       \/ /\ SEVENZ_PATH = ""
          /\ sevenzExists
          /\ Goto(r, "cleanup")
          /\ UNCHANGED loc
       \/ /\ SEVENZ_PATH = ""
          /\ ~sevenzExists
          /\ Raise(r, "no 7z bundle")
       \/ /\ SEVENZ_PATH = ""
          /\ ~sevenzExists
          /\ Goto(r, "unpack")
          /\ UNCHANGED loc
    /\ UNCHANGED <<regVars, status, logs, lock, fx, sent, oplog>>
    /\ UNCHANGED <<fsVars, sevenzVars, pollVars, parseVars>>

\* ensure_7z_ready: tarfile extraction into SEVENZ_DIR, return sevenz_path
RunUnpack(r) ==
    /\ rpc[r] = "unpack"
    /\ sevenzExists' = TRUE
    /\ fx' = [fx EXCEPT ![r].unpacked = @ + 1]
    /\ Goto(r, "cleanup")
    /\ UNCHANGED <<regVars, status, logs, lock, loc, sent, oplog>>
    /\ UNCHANGED <<fsVars, SEVENZ_PATH, pollVars, parseVars>>

\* old_parts = list(out_dir.glob(...)); if archive_path.exists() or
\* old_parts: job.log("清理上次生成的分卷")
RunCleanup(r) ==
    /\ rpc[r] = "cleanup"
    /\ \/ /\ ~archiveFile /\ files = {}
          /\ Goto(r, "popen")
          /\ UNCHANGED loc
       \/ /\ archiveFile \/ files # {}
          /\ JobLog(r, Line("cleanup"), "info", "unlink")
    /\ UNCHANGED <<regVars, status, logs, lock, fx, sent, oplog>>
    /\ UNCHANGED <<fsVars, sevenzVars, pollVars, parseVars>>

\* logger.error for every unlink that failed
UnlinkErrors(kept, keptArchive) ==
    [i \in 1..Cardinality(kept) |->
        OpRec("error", Line("delete old volume failed"))]
    \o (IF keptArchive
        THEN <<OpRec("error", Line("delete old archive failed"))>>
        ELSE <<>>)

\* for p in old_parts: p.unlink(); archive_path.unlink().  An unlink may
\* fail: the file stays and logger.error is called.
RunUnlink(r) ==
    /\ rpc[r] = "unlink"
    /\ \E kept \in SUBSET files,
          keptArchive \in (IF archiveFile THEN BOOLEAN ELSE {FALSE}) :
          /\ files' = kept
          /\ archiveFile' = keptArchive
          /\ fx' = [fx EXCEPT ![r].deleted = @ \cup (files \ kept)]
          /\ oplog' = [oplog EXCEPT
                         ![r] = @ \o UnlinkErrors(kept, keptArchive)]
    /\ Goto(r, "popen")
    /\ UNCHANGED <<regVars, status, logs, lock, loc, sent, outDir>>
    /\ UNCHANGED <<sevenzVars, pollVars, parseVars>>

\* job.log("开始压缩源文件夹")
RunPopen(r) ==
    /\ rpc[r] = "popen"
    /\ JobLog(r, Line("archiving"), "info", "spawn")
    /\ UNCHANGED <<regVars, status, logs, lock, fx, sent, oplog>>
    /\ UNCHANGED <<fsVars, sevenzVars, pollVars, parseVars>>

\* proc = subprocess.Popen(cmd, ...)
RunSpawn(r) ==
    /\ rpc[r] = "spawn"
    /\ \/ /\ fx' = [fx EXCEPT ![r].popen = @ + 1]
          /\ Goto(r, "archiving")
          /\ UNCHANGED loc
       \/ /\ Raise(r, "cannot start 7z")
          /\ UNCHANGED fx
    /\ UNCHANGED <<regVars, status, logs, lock, sent, oplog>>
    /\ UNCHANGED <<fsVars, sevenzVars, pollVars, parseVars>>

\* for line in proc.stdout: logger.info(line.rstrip())
RunArchiverLine(r) ==
    /\ rpc[r] = "archiving"
    /\ loc[r].lines < MaxLines
    /\ loc' = [loc EXCEPT ![r].lines = @ + 1]
    /\ oplog' = [oplog EXCEPT
                   ![r] = Append(@, OpRec("info", Line("7z output")))]
    /\ UNCHANGED <<regVars, status, logs, lock, rpc, fx, sent>>
    /\ UNCHANGED <<fsVars, sevenzVars, pollVars, parseVars>>

\* ret = proc.wait(); if ret != 0: raise ...  The child has written the
\* volumes 001..n by then (none, or some, when it failed).
RunArchiverExit(r) ==
    /\ rpc[r] = "archiving"
    /\ \E n \in 0..MaxVolumes :
          /\ files' = files \cup Vols(n)
          /\ fx' = [fx EXCEPT ![r].wrote = Vols(n)]
    /\ \/ /\ Goto(r, "parts")
          /\ UNCHANGED loc
       \/ Raise(r, "7z failed")
    /\ UNCHANGED <<regVars, status, logs, lock, sent, oplog>>
    /\ UNCHANGED <<outDir, archiveFile, sevenzVars, pollVars, parseVars>>

\* parts = sorted(out_dir.glob(...)); if not parts: raise ...;
\* job.log(f"压缩完成，共 {len(parts)} 份")
RunParts(r) ==
    /\ rpc[r] = "parts"
    /\ \/ /\ files = {}
          /\ Raise(r, "no volumes")
       \/ /\ files # {}
          /\ rpc' = [rpc EXCEPT ![r] = "log"]
          /\ loc' = [loc EXCEPT
                       ![r] = Call([@ EXCEPT !.parts = Sorted(files)],
                                   LineOf("archived", 0, Cardinality(files)),
                                   "info", "connect")]
    /\ UNCHANGED <<regVars, status, logs, lock, fx, sent, oplog>>
    /\ UNCHANGED <<fsVars, sevenzVars, pollVars, parseVars>>

\* job.log("开始发送邮件")
RunSending(r) ==
    /\ rpc[r] = "connect"
    /\ JobLog(r, Line("sending"), "info", "session")
    /\ UNCHANGED <<regVars, status, logs, lock, fx, sent, oplog>>
    /\ UNCHANGED <<fsVars, sevenzVars, pollVars, parseVars>>

\* server = connect_smtp(...)
RunConnect(r) ==
    /\ rpc[r] = "session"
    /\ \/ /\ Smtp(r, "connect", TRUE)
          /\ Goto(r, "recipients")
          /\ UNCHANGED loc
       \/ /\ Smtp(r, "connect", FALSE)
          /\ Raise(r, "connect failed")
    /\ UNCHANGED <<regVars, status, logs, lock, sent, oplog>>
    /\ UNCHANGED <<fsVars, sevenzVars, pollVars, parseVars>>

\* RecipientsError with the emptiness test on both lists:
\* if not (to_list + cc_list)
RecipientsErrorBothEmpty(p) ==
    IF parse_recipients(p.recipients).raised THEN "invalid address"
    ELSE IF parse_recipients(p.cc).raised THEN "invalid address"
    ELSE IF parse_recipients(p.recipients).list
            \o parse_recipients(p.cc).list = <<>> THEN "no recipient"
    ELSE ""

\* to_list = parse_recipients(payload.recipients);
\* cc_list = parse_recipients(payload.cc);
\* if not to_list: raise RuntimeError("收件人为空")
\* The message of the exception raised, "" when none is.
RecipientsError(p) ==
    IF parse_recipients(p.recipients).raised THEN "invalid address"
    ELSE IF parse_recipients(p.cc).raised THEN "invalid address"
    ELSE IF parse_recipients(p.recipients).list = <<>> THEN "no recipient"
    ELSE ""

RunRecipients(r) ==
    /\ rpc[r] = "recipients"
    /\ \/ /\ RecipientsError(payload[r]) # ""
          /\ Raise(r, RecipientsError(payload[r]))
       \/ /\ RecipientsError(payload[r]) = ""
          /\ loc' = [loc EXCEPT ![r].idx = 1]
          /\ Goto(r, "send")
    /\ UNCHANGED <<regVars, status, logs, lock, fx, sent, oplog>>
    /\ UNCHANGED <<fsVars, sevenzVars, pollVars, parseVars>>

\* Message with the index counted from 0: enumerate(parts)
MessageFromZero(p, parts, idx) ==
    [idx |-> idx - 1, total |-> Len(parts), part |-> parts[idx],
     rcpts |-> parse_recipients(p.recipients).list
               \o parse_recipients(p.cc).list]

\* the message of the idx-th part:
\* subject "... (Part {idx}/{total})", attachment part, to_addrs all_rcpts
Message(p, parts, idx) ==
    [idx |-> idx, total |-> Len(parts), part |-> parts[idx],
     rcpts |-> parse_recipients(p.recipients).list
               \o parse_recipients(p.cc).list]

\* NeedsPause without the test for the last part: if interval > 0
NeedsPauseEvery(idx, total, interval) == interval > 0

\* if idx < total and interval > 0
NeedsPause(idx, total, interval) == idx < total /\ interval > 0

\* where the loop goes after the idx-th message was sent and logged
AfterSend(idx, total, interval) ==
    IF NeedsPause(idx, total, interval) THEN "throttle"
    ELSE IF idx < total THEN "next"
    ELSE "quit"

\* one turn of "for idx, part in enumerate(parts, start=1)" up to
\* job.log(f"已发送第 {idx}/{total} 封"): the part is read (open may fail:
\* the file is gone or unreadable), the message built and handed to
\* server.send_message
RunSend(r) ==
    /\ rpc[r] = "send"
    /\ LET idx == loc[r].idx
           parts == loc[r].parts
       IN \/ /\ Raise(r, "cannot read volume")
             /\ UNCHANGED <<fx, sent>>
          \/ /\ Smtp(r, "send", FALSE)
             /\ Raise(r, "send failed")
             /\ UNCHANGED sent
          \/ /\ Smtp(r, "send", TRUE)
             /\ sent' = [sent EXCEPT
                           ![r] = Append(@, Message(payload[r], parts, idx))]
             /\ JobLog(r, LineOf("sent", idx, Len(parts)), "info",
                       AfterSend(idx, Len(parts), Interval(payload[r])))
    /\ UNCHANGED <<regVars, status, logs, lock, oplog>>
    /\ UNCHANGED <<fsVars, sevenzVars, pollVars, parseVars>>

\* job.log(f"等待 {interval}s 继续")
RunThrottle(r) ==
    /\ rpc[r] = "throttle"
    /\ JobLog(r, LineOf("wait", Interval(payload[r]), 0), "info", "sleep")
    /\ UNCHANGED <<regVars, status, logs, lock, fx, sent, oplog>>
    /\ UNCHANGED <<fsVars, sevenzVars, pollVars, parseVars>>

\* time.sleep(interval)
RunSleep(r) ==
    /\ rpc[r] = "sleep"
    /\ fx' = [fx EXCEPT ![r].slept = Append(@, Interval(payload[r]))]
    /\ Goto(r, "next")
    /\ UNCHANGED <<regVars, status, logs, lock, loc, sent, oplog>>
    /\ UNCHANGED <<fsVars, sevenzVars, pollVars, parseVars>>

\* the for loop takes the next part
RunNextPart(r) ==
    /\ rpc[r] = "next"
    /\ loc' = [loc EXCEPT ![r].idx = @ + 1]
    /\ Goto(r, "send")
    /\ UNCHANGED <<regVars, status, logs, lock, fx, sent, oplog>>
    /\ UNCHANGED <<fsVars, sevenzVars, pollVars, parseVars>>

\* RunQuit with the status published before the completion line:
\* server.quit(); job.status = JobStatus.DONE; job.log("全部发送完成")
RunQuitStatusFirst(r) ==
    /\ rpc[r] = "quit"
    /\ \/ /\ Smtp(r, "quit", TRUE)
          /\ status' = [status EXCEPT ![r] = JobStatus.DONE]
          /\ JobLog(r, Line("all sent"), "info", "done")
       \/ /\ Smtp(r, "quit", FALSE)
          /\ Raise(r, "quit failed")
          /\ UNCHANGED status
    /\ UNCHANGED <<regVars, logs, lock, sent, oplog>>
    /\ UNCHANGED <<fsVars, sevenzVars, pollVars, parseVars>>

\* server.quit(); job.log("全部发送完成")
RunQuit(r) ==
    /\ rpc[r] = "quit"
    /\ \/ /\ Smtp(r, "quit", TRUE)
          /\ JobLog(r, Line("all sent"), "info", "done")
       \/ /\ Smtp(r, "quit", FALSE)
          /\ Raise(r, "quit failed")
    /\ UNCHANGED <<regVars, status, logs, lock, sent, oplog>>
    /\ UNCHANGED <<fsVars, sevenzVars, pollVars, parseVars>>

\* job.status = JobStatus.DONE
RunDone(r) ==
    /\ rpc[r] = "done"
    /\ status' = [status EXCEPT ![r] = JobStatus.DONE]
    /\ Goto(r, "finished")
    /\ UNCHANGED <<regVars, logs, lock, loc, fx, sent, oplog>>
    /\ UNCHANGED <<fsVars, sevenzVars, pollVars, parseVars>>

\* except Exception as e: job.log(f"出错：{e}", level="error")
RunExcept(r) ==
    /\ rpc[r] = "except"
    /\ JobLog(r, ErrorLine(loc[r].err), "error", "error")
    /\ UNCHANGED <<regVars, status, logs, lock, fx, sent, oplog>>
    /\ UNCHANGED <<fsVars, sevenzVars, pollVars, parseVars>>

\* RunError as a retry: the handler puts the job back to PENDING and runs
\* the pipeline again
RunErrorRetry(r) ==
    /\ rpc[r] = "error"
    /\ status' = [status EXCEPT ![r] = JobStatus.PENDING]
    /\ Goto(r, "start")
    /\ UNCHANGED <<regVars, logs, lock, loc, fx, sent, oplog>>
    /\ UNCHANGED <<fsVars, sevenzVars, pollVars, parseVars>>

\* job.status = JobStatus.ERROR
RunError(r) ==
    /\ rpc[r] = "error"
    /\ status' = [status EXCEPT ![r] = JobStatus.ERROR]
    /\ Goto(r, "finished")
    /\ UNCHANGED <<regVars, logs, lock, loc, fx, sent, oplog>>
    /\ UNCHANGED <<fsVars, sevenzVars, pollVars, parseVars>>

_run_job(r) ==
    \/ RunStart(r) \/ RunHost(r)
    \/ RunPreConnect(r) \/ RunPreNoop(r) \/ RunPreQuit(r)
    \/ RunDir(r) \/ RunSevenz(r) \/ RunUnpack(r)
    \/ RunCleanup(r) \/ RunUnlink(r)
    \/ RunPopen(r) \/ RunSpawn(r) \/ RunArchiverLine(r) \/ RunArchiverExit(r)
    \/ RunParts(r) \/ RunSending(r) \/ RunConnect(r) \/ RunRecipients(r)
    \/ RunSend(r) \/ RunThrottle(r) \/ RunSleep(r) \/ RunNextPart(r)
    \/ RunQuit(r)
    \/ RunDone(r) \/ RunExcept(r) \/ RunError(r)
    \/ LogLockAppend(r) \/ LogTrimUnlock(r)

\* --------------------------------------------------------------- api_logs
JobIds == 0..MaxClock

\* job = get_job(job_id); if not job: raise HTTPException(404, ...)
ApiLogsLookup(id) ==
    /\ ppc = "idle"
    /\ pid' = id
    /\ pjob' = get_job(id)
    /\ \/ /\ get_job(id) = 0
          /\ presp' = [code |-> 404, status |-> "NONE", logs |-> <<>>]
          /\ ppc' = "idle"
       \/ /\ get_job(id) # 0
          /\ presp' = NoResponse
          /\ ppc' = "status"
    /\ UNCHANGED <<regVars, status, logs, lock, rpc, loc, fx, sent, oplog>>
    /\ UNCHANGED <<fsVars, sevenzVars, parseVars, pstatus>>

\* the response's "status": job.status
ApiLogsStatus ==
    /\ ppc = "status"
    /\ pstatus' = status[pjob]
    /\ ppc' = "logs"
    /\ UNCHANGED <<regVars, status, logs, lock, rpc, loc, fx, sent, oplog>>
    /\ UNCHANGED <<fsVars, sevenzVars, parseVars, pid, pjob, presp>>

\* LogsTail with the slice taken from the front: job.logs[:1000]
LogsHead(l) == IF Len(l) <= LOGS_TAIL THEN l ELSE SubSeq(l, 1, LOGS_TAIL)

\* the response's "logs": job.logs[-1000:]
LogsTail(l) == LastN(l, LOGS_TAIL)

ApiLogsReturn ==
    /\ ppc = "logs"
    /\ presp' = [code |-> 200, status |-> pstatus,
                 logs |-> LogsTail(logs[pjob])]
    /\ ppc' = "idle"
    /\ UNCHANGED <<regVars, status, logs, lock, rpc, loc, fx, sent, oplog>>
    /\ UNCHANGED <<fsVars, sevenzVars, parseVars, pid, pjob, pstatus>>

api_logs == (\E id \in JobIds : ApiLogsLookup(id)) \/ ApiLogsStatus \/ ApiLogsReturn

\* -------------------------------------------------------- parse_recipients
\* one call parse_recipients(ptext): what it returned, or that it raised
\* and the addresses its error names
ParseRecipients ==
    /\ ~parsed.called
    /\ LET out == parse_recipients(ptext)
       IN parsed' = [called |-> TRUE, raised |-> out.raised,
                     list |-> out.list, bad |-> out.bad]
    /\ UNCHANGED <<regVars, status, logs, lock, rpc, loc, fx, sent, oplog>>
    /\ UNCHANGED <<fsVars, sevenzVars, pollVars, ptext>>

\* ---------------------------------------------------------- specifications
\* The program serving one start request: the request handler and the
\* job's thread, in every interleaving, under every outcome of the calls
\* into the SMTP server, the file system and the archiver.
Next == \E r \in {1} : ApiStart(r) \/ ApiStartReturn(r) \/ _run_job(r)

Spec == Init /\ [][Next]_vars

\* The two ends of Init: a process whose startup resolved the archiver and
\* a session archived for the first time, or a process whose startup
\* resolution failed and a session whose output directory holds MaxStale
\* old volumes and the old unsplit archive.
InitFair ==
    /\ InitJobs
    /\ InitPoll
    /\ InitParse
    /\ \/ /\ SEVENZ_PATH = "7zz" /\ sevenzExists = TRUE
          /\ outDir = FALSE /\ files = {} /\ archiveFile = FALSE
       \/ /\ SEVENZ_PATH = "" /\ sevenzExists = FALSE
          /\ outDir = TRUE /\ files = Vols(MaxStale) /\ archiveFile = TRUE

\* The same program when the job's thread is scheduled fairly and every
\* call it makes into the SMTP server, the archiver and time.sleep comes
\* back: a step of _run_job that can be taken is eventually taken.
SpecFair == InitFair /\ [][Next]_vars /\ WF_vars(_run_job(1))

\* The registry under concurrent start requests and status queries, while
\* the clock runs: the jobs' threads have not been scheduled yet.
NextRegistry ==
    \/ Tick
    \/ \E r \in Reqs : ApiStart(r) \/ ApiStartReturn(r)
    \/ api_logs

SpecRegistry == Init /\ [][NextRegistry]_vars

\* A job of LongRun volumes that has sent the first LongStart - 1 of them,
\* pausing after each: the state _run_job is in when its for loop takes
\* part LongStart.  Its log has grown by two lines per volume.
LongParts == [k \in 1..LongRun |-> VolName(k)]
LongLogs ==
    <<Line("preflight"), Line("preflight passed"), Line("prepare archiver"),
      Line("archiving"), LineOf("archived", 0, LongRun), Line("sending")>>
    \o [i \in 1..(2 * (LongStart - 1)) |->
          IF i % 2 = 1 THEN LineOf("sent", (i + 1) \div 2, LongRun)
          ELSE LineOf("wait", Interval(DefaultPayload), 0)]
LongSmtp ==
    <<[op |-> "pre_connect", ok |-> TRUE], [op |-> "pre_noop", ok |-> TRUE],
      [op |-> "pre_quit", ok |-> TRUE], [op |-> "connect", ok |-> TRUE]>>
    \o [i \in 1..(LongStart - 1) |-> [op |-> "send", ok |-> TRUE]]

InitLong ==
    /\ now = 0
    /\ JOBS = [i \in 0..MaxClock |-> IF i = 0 THEN 1 ELSE 0]
    /\ apc = [r \in Reqs |-> IF r = 1 THEN "returned" ELSE "idle"]
    /\ payload = [r \in Reqs |-> IF r = 1 THEN DefaultPayload ELSE NoPayload]
    /\ startResp = [r \in Reqs |->
                      IF r = 1 THEN [job_id |-> 0, status |-> JobStatus.PENDING]
                      ELSE [job_id |-> NoJobId, status |-> "NONE"]]
    /\ job_id = [r \in Reqs |-> IF r = 1 THEN 0 ELSE NoJobId]
    /\ status = [r \in Reqs |-> IF r = 1 THEN JobStatus.RUNNING ELSE "NONE"]
    /\ logs = [r \in Reqs |-> IF r = 1 THEN LongLogs ELSE <<>>]
    /\ lock = [r \in Reqs |-> "free"]
    /\ rpc = [r \in Reqs |-> IF r = 1 THEN "send" ELSE "none"]
    /\ loc = [r \in Reqs |->
                IF r = 1
                THEN [parts |-> LongParts, idx |-> LongStart, err |-> "",
                      lines |-> 0,
                      line |-> LineOf("wait", Interval(DefaultPayload), 0),
                      level |-> "info", ret |-> "sleep"]
                ELSE NoLocals]
    /\ fx = [r \in Reqs |->
                IF r = 1
                THEN [smtp |-> LongSmtp, mkdir |-> TRUE, deleted |-> {},
                      popen |-> 1, wrote |-> Vols(LongRun), unpacked |-> 0,
                      slept |-> [i \in 1..(LongStart - 1) |->
                                   Interval(DefaultPayload)]]
                ELSE NoEffects]
    /\ sent = [r \in Reqs |->
                IF r = 1
                THEN [k \in 1..(LongStart - 1) |->
                        Message(DefaultPayload, LongParts, k)]
                ELSE <<>>]
    /\ oplog = [r \in Reqs |->
                IF r = 1
                THEN [i \in 1..Len(LongLogs) |-> OpRec("info", LongLogs[i])]
                ELSE <<>>]
    /\ InitPoll
    /\ InitParse
    /\ outDir = TRUE
    /\ files = Vols(LongRun)
    /\ archiveFile = FALSE
    /\ SEVENZ_PATH = "7zz"
    /\ sevenzExists = TRUE

\* The rest of the long-running job's send loop, with a client polling.
NextLong ==
    \/ \E r \in {1} :
          \/ RunSend(r) \/ RunThrottle(r) \/ RunSleep(r) \/ RunNextPart(r)
          \/ RunQuit(r) \/ RunDone(r) \/ RunExcept(r) \/ RunError(r)
          \/ LogLockAppend(r) \/ LogTrimUnlock(r)
    \/ api_logs

SpecLog == InitLong /\ [][NextLong]_vars

\* Every request has been served in a millisecond of its own, and every
\* job has passed the pre-flight and made its output directory: the state
\* in which the jobs' threads reach "sevenz = SEVENZ_PATH or
\* ensure_7z_ready()" together.
StageLogs ==
    <<Line("preflight"), Line("preflight passed"), Line("prepare archiver")>>
StageSmtp ==
    <<[op |-> "pre_connect", ok |-> TRUE], [op |-> "pre_noop", ok |-> TRUE],
      [op |-> "pre_quit", ok |-> TRUE]>>

InitStage ==
    /\ now = MaxJobs - 1
    /\ JOBS = [i \in 0..MaxClock |-> IF i + 1 \in Reqs THEN i + 1 ELSE 0]
    /\ apc = [r \in Reqs |-> "returned"]
    /\ payload = [r \in Reqs |-> DefaultPayload]
    /\ startResp = [r \in Reqs |->
                      [job_id |-> r - 1, status |-> JobStatus.PENDING]]
    /\ job_id = [r \in Reqs |-> r - 1]
    /\ status = [r \in Reqs |-> JobStatus.RUNNING]
    /\ logs = [r \in Reqs |-> StageLogs]
    /\ lock = [r \in Reqs |-> "free"]
    /\ rpc = [r \in Reqs |-> "sevenz"]
    /\ loc = [r \in Reqs |->
                Call(NoLocals, Line("prepare archiver"), "info", "sevenz")]
    /\ fx = [r \in Reqs |->
               [NoEffects EXCEPT !.smtp = StageSmtp, !.mkdir = TRUE]]
    /\ sent = [r \in Reqs |-> <<>>]
    /\ oplog = [r \in Reqs |->
                  [i \in 1..Len(StageLogs) |-> OpRec("info", StageLogs[i])]]
    /\ InitPoll
    /\ InitParse
    /\ InitSevenz
    /\ outDir = TRUE
    /\ \E n \in 0..MaxStale, a \in BOOLEAN :
          /\ files = Vols(n)
          /\ archiveFile = a

\* The jobs' threads from the archiver resolution to the start of the
\* archiver, in every interleaving.
NextStage ==
    \E r \in Reqs :
       \/ RunSevenz(r) \/ RunUnpack(r)
       \/ RunCleanup(r) \/ RunUnlink(r) \/ RunPopen(r)
       \/ RunExcept(r) \/ RunError(r)
       \/ LogLockAppend(r) \/ LogTrimUnlock(r)

SpecStage == InitStage /\ [][NextStage]_vars

\* parse_recipients on its own, called on every text of up to MaxAddrs
\* addresses.
InitParseCall ==
    /\ InitJobs
    /\ InitPoll
    /\ SEVENZ_PATH = "7zz" /\ sevenzExists = TRUE
    /\ outDir = FALSE /\ files = {} /\ archiveFile = FALSE
    /\ ptext \in Texts
    /\ parsed = NotParsed

NextParse == ParseRecipients

SpecParse == InitParseCall /\ [][NextParse]_vars

\* ------------------------------------------------------------------ claims
\* C1: a job's status only ever moves PENDING -> RUNNING -> DONE or ERROR:
\* it never returns to PENDING, never re-enters RUNNING, never skips
\* RUNNING, and a terminal status never changes.
C1_StatusOrder ==
    [][\A r \in Reqs :
          status'[r] # status[r] =>
             <<status[r], status'[r]>> \in
                {<<"NONE", "PENDING">>, <<"PENDING", "RUNNING">>,
                 <<"RUNNING", "DONE">>, <<"RUNNING", "ERROR">>}]_vars

C1_Witness == \E r \in Reqs : status[r] = "DONE" /\ Len(sent[r]) > 0

\* C2: no two created jobs share a job id, and get_job(id) is the job that
\* create_job made for that id.
C2_UniqueIds ==
    /\ \A r1, r2 \in Reqs :
          (r1 # r2 /\ job_id[r1] # NoJobId /\ job_id[r2] # NoJobId)
             => job_id[r1] # job_id[r2]
    /\ \A r \in Reqs : job_id[r] # NoJobId => get_job(job_id[r]) = r

\* C3: a job whose pre-flight failed at connect, at the probe or at quit has
\* created no output directory, deleted and written no volume, started no
\* archiver, opened no send session and sent nothing; it is on its way to
\* ERROR and never DONE.
PreflightFailed(r) ==
    \E i \in DOMAIN fx[r].smtp :
       /\ fx[r].smtp[i].op \in {"pre_connect", "pre_noop", "pre_quit"}
       /\ ~fx[r].smtp[i].ok

C3_PreflightGate ==
    \A r \in Reqs :
       PreflightFailed(r) =>
          /\ ~fx[r].mkdir
          /\ fx[r].deleted = {} /\ fx[r].wrote = {}
          /\ fx[r].popen = 0 /\ fx[r].unpacked = 0
          /\ \A i \in DOMAIN fx[r].smtp :
                fx[r].smtp[i].op \notin {"connect", "send", "quit"}
          /\ sent[r] = <<>>
          /\ rpc[r] \in {"except", "log", "log_trim", "error", "finished"}
          /\ status[r] \in {"RUNNING", "ERROR"}
          /\ rpc[r] = "finished" => status[r] = "ERROR"

C3_Witness ==
    \E r \in Reqs :
       /\ PreflightFailed(r)
       /\ status[r] = "ERROR"
       /\ fx[r].smtp[Len(fx[r].smtp)].op = "pre_quit"

\* C4: a job whose To text yields no address never sends a message and
\* never is DONE, whatever its Cc text yields; when it ends, it is ERROR.
ToIsEmpty(p) ==
    /\ ~parse_recipients(p.recipients).raised
    /\ parse_recipients(p.recipients).list = <<>>

C4_EmptyTo ==
    \A r \in Reqs :
       (rpc[r] # "none" /\ ToIsEmpty(payload[r])) =>
          /\ sent[r] = <<>>
          /\ \A i \in DOMAIN fx[r].smtp : fx[r].smtp[i].op # "send"
          /\ status[r] # "DONE"
          /\ rpc[r] = "finished" => status[r] = "ERROR"

C4_Witness ==
    \E r \in Reqs :
       /\ ToIsEmpty(payload[r])
       /\ parse_recipients(payload[r].cc).list # <<>>
       /\ loc[r].err = "no recipient"
       /\ status[r] = "ERROR"

\* C5: once a stage of a job has failed, the job does nothing more to the
\* outside world (what was sent and written stays as it is), its log gets
\* one line, the error line with the exception's message, which the logger
\* records at error level, and its status becomes ERROR.
ErrorLines(l) == {i \in DOMAIN l : l[i].text = "error"}
ErrorRecords(o) ==
    {i \in DOMAIN o : o[i].level = "error" /\ o[i].line.text = "error"}

C5_FailedState(r) ==
    /\ status[r] = "ERROR" =>
          /\ loc[r].err # ""
          /\ Cardinality(ErrorLines(logs[r])) = 1
          /\ logs[r][Len(logs[r])].text = "error"
          /\ logs[r][Len(logs[r])].err = loc[r].err
          /\ Cardinality(ErrorRecords(oplog[r])) = 1
          /\ \A i \in ErrorRecords(oplog[r]) : oplog[r][i].line.err = loc[r].err
    /\ (rpc[r] = "finished" /\ loc[r].err # "") => status[r] = "ERROR"
    /\ loc[r].err # "" => status[r] # "DONE"

C5_FailStop ==
    [][\A r \in Reqs :
          /\ loc[r].err # "" =>
                /\ loc'[r].err = loc[r].err
                /\ fx'[r] = fx[r] /\ sent'[r] = sent[r]
                /\ files' = files /\ archiveFile' = archiveFile
                /\ outDir' = outDir
                /\ \/ logs'[r] = logs[r]
                   \/ /\ Len(logs'[r]) = Len(logs[r]) + 1
                      /\ SubSeq(logs'[r], 1, Len(logs[r])) = logs[r]
                      /\ logs'[r][Len(logs'[r])].text = "error"
          /\ C5_FailedState(r)']_vars

C5_Witness ==
    \E r \in Reqs :
       /\ status[r] = "ERROR"
       /\ loc[r].err = "send failed"
       /\ Len(sent[r]) >= 1
       /\ files # {}

\* C6: the messages a job has sent are those of its first parts, in order,
\* the k-th carrying index k, the total count and the k-th part; the parts
\* are in ascending volume order; a DONE job has sent one message for every
\* volume file.
VolNumber(name) == 100 * name[1] + 10 * name[2] + name[3]

C7_Pauses ==
    \A r \in Reqs :
       LET s == payload[r].send_interval_sec
           d == IF s > 0 THEN s ELSE 0
           N == Len(loc[r].parts)
           k == Len(sent[r])
           p == fx[r].slept
       IN /\ \A i \in DOMAIN p : p[i] = d
          /\ d = 0 => p = <<>>
          /\ k = 0 => p = <<>>
          /\ (d > 0 /\ k >= 1) =>
                /\ Len(p) >= k - 1
                /\ Len(p) <= k
                /\ Len(p) <= N - 1
          /\ (d > 0 /\ rpc[r] = "send") => Len(p) = k
          /\ status[r] = "DONE" => Len(p) = (IF d > 0 THEN N - 1 ELSE 0)

C7_Witness ==
    \E r \in Reqs :
       /\ status[r] = "DONE"
       /\ Len(sent[r]) = 2
       /\ fx[r].slept = <<1>>

\* C8: a job's log only grows by appends at its end, except that the append
\* which makes it 2001 entries long is followed by the trim to its last 1000
\* entries; whenever no Job.log call is under way it has at most 2000.
C8_LogBounded ==
    [][\A r \in Reqs :
          LET l == logs[r]
              m == logs'[r]
          IN /\ lock'[r] = "free" => Len(m) <= 2000
             /\ \/ m = l
                \/ /\ Len(l) <= 2000
                   /\ Len(m) = Len(l) + 1
                   /\ SubSeq(m, 1, Len(l)) = l
                \/ /\ Len(l) = 2001
                   /\ Len(m) = 1000
                   /\ \A i \in 1..1000 : m[i] = l[1001 + i]]_vars

C8_Witness ==
    \E r \in Reqs :
       /\ lock[r] = "free"
       /\ Len(logs[r]) = 1000
       /\ logs[r][1000].text = "sent"

\* C9: the status query of a known id answers 200 with the status it read
\* from the job and the last 1000 lines of the job's log, in order (the whole
\* log when it has no more than 1000); for an id no job has, it answers 404
\* and changes nothing.
C9_StatusQuery ==
    [][/\ (ppc = "idle" /\ pollVars' # pollVars) =>
             /\ (\A r \in Reqs : job_id[r] # pid') =>
                   /\ presp'.code = 404
                   /\ ppc' = "idle"
                   /\ UNCHANGED <<regVars, status, logs, lock, rpc, loc, fx,
                                  sent, oplog, fsVars, sevenzVars>>
             /\ (\E r \in Reqs : job_id[r] = pid') =>
                   /\ presp'.code # 404
                   /\ pjob' \in Reqs
                   /\ job_id[pjob'] = pid'
       /\ (ppc = "status" /\ ppc' = "logs") => pstatus' = status[pjob]
       /\ (ppc = "logs" /\ ppc' = "idle") =>
             LET l == logs[pjob]
                 n == Len(l)
             IN /\ presp'.code = 200
                /\ presp'.status = pstatus
                /\ Len(presp'.logs) <= 1000
                /\ n <= 1000 => presp'.logs = l
                /\ n > 1000 =>
                      /\ Len(presp'.logs) = 1000
                      /\ \A i \in 1..1000 : presp'.logs[i] = l[n - 1000 + i]
      ]_vars

C9_Witness ==
    /\ presp.code = 200
    /\ Len(presp.logs) = 1000
    /\ pjob \in Reqs
    /\ Len(logs[pjob]) > 1000
    /\ presp.logs[1000].text = "wait"

\* C10: a start request with a syntactically invalid To or Cc address
\* creates no job and starts no thread.
HasInvalidAddress(p) ==
    parse_recipients(p.recipients).raised \/ parse_recipients(p.cc).raised

C10_InvalidRejected ==
    \A r \in Reqs :
       HasInvalidAddress(payload[r]) =>
          /\ job_id[r] = NoJobId
          /\ rpc[r] = "none"
          /\ \A id \in DOMAIN JOBS : JOBS[id] # r
          /\ fx[r] = NoEffects

\* C11: when a job invokes the archiver, no volume file and no unsplit
\* archive of an earlier run is left, and after its archive stage the volume
\* files present are exactly those the run wrote.
C11_OnlyNewVolumes ==
    \A r \in Reqs :
       /\ fx[r].popen > 0 => (files \subseteq fx[r].wrote /\ ~archiveFile)
       /\ rpc[r] = "parts" => files = fx[r].wrote

\* C12: the response of the start request carries the job's id and the
\* status PENDING.
C12_StartReturnsPending ==
    \A r \in Reqs :
       apc[r] = "returned" =>
          /\ startResp[r].job_id = job_id[r]
          /\ startResp[r].status = "PENDING"

\* C13: parse_recipients raises as soon as one extracted address does not
\* match, returning no list, and its error names the non-matching addresses,
\* all of them and only them; otherwise it returns the matching addresses,
\* one per lower-cased form, in the order and casing of their first
\* occurrence; the empty text gives the empty list.
Cleaned == [i \in DOMAIN ptext |-> Strip(ptext[i])]
Extracted == {i \in DOMAIN ptext : Cleaned[i] # <<>>}
BadIdx == {i \in Extracted : ~EmailReMatch(Cleaned[i])}
FirstIdx ==
    {i \in Extracted :
        \A j \in Extracted : j < i => Lower(Cleaned[j]) # Lower(Cleaned[i])}
Rank(i, S) == Cardinality({j \in S : j <= i})

C13_ParseAtomic ==
    parsed.called =>
       /\ BadIdx # {} =>
             /\ parsed.raised
             /\ parsed.list = <<>>
             /\ Len(parsed.bad) = Cardinality(BadIdx)
             /\ \A i \in BadIdx : parsed.bad[Rank(i, BadIdx)] = Cleaned[i]
       /\ BadIdx = {} =>
             /\ ~parsed.raised
             /\ parsed.bad = <<>>
             /\ Len(parsed.list) = Cardinality(FirstIdx)
             /\ \A i \in FirstIdx : parsed.list[Rank(i, FirstIdx)] = Cleaned[i]
       /\ ptext = <<>> => (~parsed.raised /\ parsed.list = <<>>)

C13_Witness ==
    /\ parsed.called
    /\ parsed.raised
    /\ Len(parsed.bad) = 2
    /\ \E i \in DOMAIN ptext : EmailReMatch(ptext[i])

\* C14: once the archiver of a job has exited, every line it printed is in
\* the job's log.
ArchiverLines(l) == {i \in DOMAIN l : l[i].text = "7z output"}

C14_ArchiverOutputLogged ==
    \A r \in Reqs :
       rpc[r] = "parts" =>
          Cardinality(ArchiverLines(logs[r])) = loc[r].lines

\* C15: every failure the job's thread reported to the process-wide logger
\* at error level also has its line in the job's log.
C15_NothingSwallowed ==
    \A r \in Reqs :
       \A i \in DOMAIN oplog[r] :
          oplog[r][i].level = "error" =>
             \E j \in DOMAIN logs[r] : logs[r][j] = oplog[r][i].line

\* C16: a job that has ended has called quit on the send session it opened,
\* and no message goes out after the quit.
SmtpOps(r, op) == {i \in DOMAIN fx[r].smtp : fx[r].smtp[i].op = op}

C16_SessionClosed ==
    \A r \in Reqs :
       /\ rpc[r] = "finished" =>
             (\A i \in SmtpOps(r, "connect") :
                 fx[r].smtp[i].ok => \E j \in SmtpOps(r, "quit") : j > i)
       /\ \A i \in SmtpOps(r, "quit") :
             \A j \in SmtpOps(r, "send") : j < i

\* C17: the status query reads the job's log only while no Job.log call
\* holds the job's lock, so the log it reads has at most 2000 entries.
C17_ReadsUnderLock ==
    [][(ppc = "logs" /\ ppc' = "idle") =>
          /\ lock[pjob] = "free"
          /\ Len(logs[pjob]) <= 2000]_vars

\* C19: a job that ended in ERROR for a missing host, a missing upload
\* directory or a missing archiver bundle has created no output directory,
\* deleted nothing, started no archiver and sent nothing, and its log ends
\* with the error; for a missing host it made no SMTP call.
PreconditionErrors == {"no SMTP_HOST", "no upload directory", "no 7z bundle"}

C19_NoSideEffects ==
    \A r \in Reqs :
       (status[r] = "ERROR" /\ loc[r].err \in PreconditionErrors) =>
          /\ ~fx[r].mkdir
          /\ fx[r].deleted = {}
          /\ fx[r].popen = 0 /\ fx[r].wrote = {}
          /\ sent[r] = <<>>
          /\ logs[r][Len(logs[r])].err = loc[r].err
          /\ loc[r].err = "no SMTP_HOST" => fx[r].smtp = <<>>

\* C18: the archiver is resolved once: no two jobs are inside the
\* resolution at the same time, the bundle is unpacked by at most one job,
\* and once a job has resolved the archiver the process-wide SEVENZ_PATH
\* holds the path.
Resolving(r) == rpc[r] = "unpack"
Resolved(r) ==
    rpc[r] \notin {"none", "sevenz", "unpack"} /\ loc[r].err # "no 7z bundle"

C18_ComputeOnce ==
    /\ \A r1, r2 \in Reqs : (Resolving(r1) /\ Resolving(r2)) => r1 = r2
    /\ Cardinality({r \in Reqs : fx[r].unpacked > 0}) <= 1
    /\ (\E r \in Reqs : Resolved(r)) => SEVENZ_PATH # ""

FinalText(st) == IF st = "DONE" THEN "all sent" ELSE "error"
LastText(l) == IF l = <<>> THEN "" ELSE l[Len(l)].text

C21_FinalLineFirst ==
    /\ \A r \in Reqs :
          /\ status[r] \in {"DONE", "ERROR"} =>
                LastText(logs[r]) = FinalText(status[r])
          /\ status[r] = "DONE" =>
                /\ Len(sent[r]) = Len(loc[r].parts)
                /\ Len(sent[r]) >= 1
                /\ fx[r].smtp[Len(fx[r].smtp)] = [op |-> "quit", ok |-> TRUE]
          /\ status[r] = "ERROR" =>
                logs[r][Len(logs[r])].err = loc[r].err
    /\ (presp.code = 200 /\ presp.status \in {"DONE", "ERROR"}) =>
          LastText(presp.logs) = FinalText(presp.status)
    /\ (ppc = "logs" /\ pstatus \in {"DONE", "ERROR"}) =>
          LastText(logs[pjob]) = FinalText(pstatus)

C21_Witness ==
    /\ presp.code = 200
    /\ presp.status = "DONE"
    /\ LastText(presp.logs) = "all sent"
    /\ pjob \in Reqs
    /\ Len(sent[pjob]) = LongRun

====
